---------------------------- MODULE Spec2Model ----------------------------
(***************************************************************************)
(* Model of the pm-monitor-data updater: authenticate.py followed by       *)
(* update_json.py.  A run authenticates, initialises the Earth Engine      *)
(* session, performs four spatial reductions, appends the current reading  *)
(* to the rolling local history, writes four local JSON files and upserts  *)
(* them into the GitHub repository.                                        *)
(*                                                                         *)
(* Numbers: raw PM2.5 values are small integers and the conversion is the  *)
(* code's multiplication by 1e9; raw temperatures are in hundredths of a   *)
(* kelvin and the conversion subtracts 273.15 (27315 hundredths).          *)
(* Python's None is the empty sequence <<>>, a number v is <<v>>.          *)
(***************************************************************************)
EXTENDS Integers, Sequences, FiniteSets, TLC

\* ------------------------------------------------------------------ bounds
\* At most this many of the four reductions yield no data in one behaviour.
MaxNoData == 1
\* Consecutive runs of one process in SpecSeq.
MaxRuns == 2
\* Calls of append_history in SpecHist.
MaxAppends == 203
\* The first appends of SpecHist take any reading; later ones a fixed cycle.
FreeAppends == 2

\* ------------------------------------------------------- program constants
HISTORY_MAX == 200
HISTORY_LOCAL == "history.json"
OUT_CURRENT == "data/current.json"
OUT_ANNUAL_PM25 == "data/annual_pm25.json"
OUT_ANNUAL_TEMP == "data/annual_temperature.json"
OUT_HISTORY == "data/history.json"
PM25_BAND == "particulate_matter_d_less_than_25_um_surface"
TEMP_BAND == "temperature_2m"

Procs == {1, 2}
Queries == {"pm25_now", "temp_now", "annual_pm25", "annual_temp"}

\* The four upload_json calls, in program order: <<path_in_repo, local_file>>.
Uploads ==
    << <<OUT_CURRENT, "current.json">>,
       <<OUT_ANNUAL_PM25, "annual_pm25.json">>,
       <<OUT_ANNUAL_TEMP, "annual_temperature.json">>,
       <<OUT_HISTORY, HISTORY_LOCAL>> >>
Paths == {Uploads[i][1] : i \in 1..4}
UploadOrder == [i \in 1..4 |-> Uploads[i][1]]
LocalNames == {Uploads[i][2] : i \in 1..4}

\* os.path.basename of a repository path
basename(p) ==
    CASE p = OUT_CURRENT -> "current.json"
      [] p = OUT_ANNUAL_PM25 -> "annual_pm25.json"
      [] p = OUT_ANNUAL_TEMP -> "annual_temperature.json"
      [] p = OUT_HISTORY -> "history.json"

\* ------------------------------------------------------------ values
None == <<>>
Some(v) == <<v>>

\* A JSON document that has not been built / a file that holds none.
NoDoc == [none |-> TRUE]

\* Local files: missing, unreadable or invalid JSON, or a JSON value that is
\* an object (obj) or an array (arr).
Missing == [kind |-> "missing", isArr |-> FALSE, obj |-> NoDoc, arr |-> <<>>]
Corrupt == [kind |-> "corrupt", isArr |-> FALSE, obj |-> NoDoc, arr |-> <<>>]
JsonObj(d) == [kind |-> "json", isArr |-> FALSE, obj |-> d, arr |-> <<>>]
JsonArr(s) == [kind |-> "json", isArr |-> TRUE, obj |-> NoDoc, arr |-> s]

\* ------------------------------------------------ the geospatial service
\* What rr.getInfo() does for one query: raise, or return a mapping, given
\* as a sequence of <<band, value-or-None>> pairs in key order.
Raise == [raises |-> TRUE, info |-> <<>>]
Empty == [raises |-> FALSE, info |-> <<>>]
NullBand(b) == [raises |-> FALSE, info |-> << <<b, None>> >>]
Value(b, v) == [raises |-> FALSE, info |-> << <<b, Some(v)>> >>]

BandOf(q) == IF q \in {"pm25_now", "annual_pm25"} THEN PM25_BAND ELSE TEMP_BAND
RawOf(q) == IF q \in {"pm25_now", "annual_pm25"} THEN {0, 2} ELSE {27315, 30000}
Outcomes(q) ==
    {Raise, Empty, NullBand(BandOf(q))} \cup {Value(BandOf(q), v) : v \in RawOf(q)}
AllOutcomes == UNION {Outcomes(q) : q \in Queries}
NoDataOutcome(o) == o.raises \/ o.info = <<>> \/ o.info[1][2] = None
ServiceStates ==
    {f \in [Queries -> AllOutcomes] :
        /\ \A q \in Queries : f[q] \in Outcomes(q)
        /\ Cardinality({q \in Queries : NoDataOutcome(f[q])}) <= MaxNoData}

VARIABLES
    env,          \* secrets, key file, credential and session, token
    ee,           \* the service's answer to each of the four queries
    clock,        \* wall clock, read by now_iso()
    files,        \* the local directory: file name -> file
    remote,       \* the repository: path -> document
    ledger,       \* every triple handed to hist.append, in order (history)
    status,       \* per process: off, running, done, raised
    pc,           \* per process: the statement it is at (or raised at)
    run,          \* per process: the number of its current run
    idx,          \* per process: which of the four files it is at
    sample,       \* per process: query -> result of safe_reduce_mean
    derived,      \* per process: query -> converted value or None
    current_json, annual_pm25_json, annual_temp_json,
    history,      \* per process: the list append_history returned
    content,      \* per process: upload_json's content
    contents,     \* per process: the revision token get_contents returned
    calls,        \* per process: repository calls of the current upload_json
    attempts,     \* per process: paths upload_json was called for
    wrote         \* per process: local files written, in order

vars == <<env, ee, clock, files, remote, ledger, status, pc, run, idx, sample,
          derived, current_json, annual_pm25_json, annual_temp_json, history,
          content, contents, calls, attempts, wrote>>


\* --------------------------------------------------------- pure functions
\* s[-n:] for n > 0
LastN(s, n) == IF Len(s) > n THEN SubSeq(s, Len(s) - n + 1, Len(s)) ELSE s

\* safe_reduce_mean without its except clause: the remote failure escapes
safe_reduce_mean_propagates(o) ==
    IF o.raises
    THEN [exc |-> TRUE, isNone |-> TRUE, map |-> <<>>]
    ELSE [exc |-> FALSE, isNone |-> FALSE, map |-> o.info]

\* safe_reduce_mean: the result of rr.getInfo(), or None when anything in the
\* try block raises.  exc is an exception leaving the function.
safe_reduce_mean(o) ==
    IF o.raises
    THEN [exc |-> FALSE, isNone |-> TRUE, map |-> <<>>]
    ELSE [exc |-> FALSE, isNone |-> FALSE, map |-> o.info]

\* Python truth of a sample: neither None nor an empty dict
Truthy(s) == ~s.isNone /\ Len(s.map) > 0
\* v = sample.get(list(sample.keys())[0])
FirstValue(s) == s.map[1][2]

\* pm25_now_ug initialised to 0 instead of None
pm25_now_ug_zero(s) ==
    IF Truthy(s) /\ FirstValue(s) # None
    THEN Some(FirstValue(s)[1] * 1000000000)
    ELSE Some(0)

pm25_now_ug(s) ==
    IF Truthy(s)
    THEN IF FirstValue(s) # None THEN Some(FirstValue(s)[1] * 1000000000) ELSE None
    ELSE None

temp_now_c(s) ==
    IF Truthy(s)
    THEN IF FirstValue(s) # None THEN Some(FirstValue(s)[1] - 27315) ELSE None
    ELSE None

annual_pm25_ug(s) ==
    IF Truthy(s)
    THEN IF FirstValue(s) # None THEN Some(FirstValue(s)[1] * 1000000000) ELSE None
    ELSE None

annual_temp_c(s) ==
    IF Truthy(s)
    THEN IF FirstValue(s) # None THEN Some(FirstValue(s)[1] - 27315) ELSE None
    ELSE None

\* read_local_history catching only a missing file: invalid JSON escapes
read_local_history_narrow(f) ==
    [exc |-> f.kind = "corrupt", val |-> IF f.kind = "json" THEN f.arr ELSE <<>>]

\* read_local_history: json.load of the file, [] on any exception
read_local_history(f) ==
    [exc |-> FALSE, val |-> IF f.kind = "json" THEN f.arr ELSE <<>>]

\* The triple append_history builds from the current reading
Triple(obj) ==
    [ts |-> obj.timestamp_utc, pm25 |-> obj.pm25_ugm3, temp |-> obj.temperature_c]

\* append_history truncating with hist[:maxlen]: it keeps the oldest entries
append_history_keeps_oldest(f, current_obj, maxlen) ==
    LET rd == read_local_history(f)
        h == Append(rd.val, Triple(current_obj))
    IN  [exc |-> rd.exc, val |-> IF Len(h) > maxlen THEN SubSeq(h, 1, maxlen) ELSE h]

\* append_history up to its return value: read, append, truncate
append_history(f, current_obj, maxlen) ==
    LET rd == read_local_history(f)
    IN  [exc |-> rd.exc,
         val |-> LastN(Append(rd.val, Triple(current_obj)), maxlen)]

\* json.dump of the returned list into the history file
dump_history(hist) == JsonArr(hist)

\* write_local(fname, obj): the file after json.dump
write_local(obj) == IF obj.isArr THEN JsonArr(obj.arr) ELSE JsonObj(obj.obj)

\* ------------------------------------------------------------ initial state
\* A log of n earlier readings, oldest first, with timestamps before the clock.
OldLog(n) == [i \in 1..n |-> [ts |-> i - n, pm25 |-> Some(1000000000), temp |-> None]]

HistoryFiles ==
    {Missing, Corrupt, JsonArr(<<>>), JsonArr(OldLog(1)), JsonArr(OldLog(HISTORY_MAX))}

NoSample == [exc |-> FALSE, isNone |-> TRUE, map |-> <<>>]
StaleDoc == [stale |-> TRUE]
RemoteDoc(e) == [exists |-> e, sha |-> 1, content |-> JsonObj(StaleDoc), msg |-> <<"earlier", "commit">>]

\* Per-process variables of a run that has not started.
Fresh ==
    /\ idx = [r \in Procs |-> 1]
    /\ sample = [r \in Procs |-> [q \in Queries |-> NoSample]]
    /\ derived = [r \in Procs |-> [q \in Queries |-> None]]
    /\ current_json = [r \in Procs |-> NoDoc]
    /\ annual_pm25_json = [r \in Procs |-> NoDoc]
    /\ annual_temp_json = [r \in Procs |-> NoDoc]
    /\ history = [r \in Procs |-> <<>>]
    /\ content = [r \in Procs |-> Missing]
    /\ contents = [r \in Procs |-> 0]
    /\ calls = [r \in Procs |-> <<>>]
    /\ attempts = [r \in Procs |-> <<>>]
    /\ wrote = [r \in Procs |-> <<>>]

Environments ==
    [secret : BOOLEAN, keyfile : BOOLEAN, credOk : BOOLEAN, initOk : BOOLEAN,
     token : BOOLEAN]

\* One process, one run, any environment.
Init ==
    /\ env \in Environments
    /\ ee \in ServiceStates
    /\ clock = 1
    /\ \E h \in HistoryFiles :
         /\ files = [n \in LocalNames |-> IF n = HISTORY_LOCAL THEN h ELSE Missing]
         /\ ledger = read_local_history(h).val
    /\ \E e \in BOOLEAN : remote = [p \in Paths |-> RemoteDoc(e)]
    /\ status = [r \in Procs |-> IF r = 1 THEN "running" ELSE "off"]
    /\ pc = [r \in Procs |-> "auth"]
    /\ run = [r \in Procs |-> 1]
    /\ Fresh

\* ------------------------------------------------------------------ actions
At(r, l) == status[r] = "running" /\ pc[r] = l
Raised(r) == status' = [status EXCEPT ![r] = "raised"]

\* authenticate.py: the secret, the key file, ee.Initialize(credentials)
Authenticate(r) ==
    /\ At(r, "auth")
    /\ IF env.secret /\ env.keyfile /\ env.credOk
       THEN pc' = [pc EXCEPT ![r] = "init"] /\ UNCHANGED status
       ELSE Raised(r) /\ UNCHANGED pc
    /\ UNCHANGED <<env, ee, clock, files, remote, ledger, run, idx, sample,
                   derived, current_json, annual_pm25_json, annual_temp_json,
                   history, content, contents, calls, attempts, wrote>>

\* ee.Initialize() whose failure is only printed: the run goes on
InitializeEE_continues(r) ==
    /\ At(r, "init")
    /\ pc' = [pc EXCEPT ![r] = "pm25_now"]
    /\ UNCHANGED <<env, ee, clock, files, remote, ledger, status, run, idx, sample,
                   derived, current_json, annual_pm25_json, annual_temp_json,
                   history, content, contents, calls, attempts, wrote>>

\* update_json.py: ee.Initialize() or RuntimeError
InitializeEE(r) ==
    /\ At(r, "init")
    /\ IF env.initOk
       THEN pc' = [pc EXCEPT ![r] = "pm25_now"] /\ UNCHANGED status
       ELSE Raised(r) /\ UNCHANGED pc
    /\ UNCHANGED <<env, ee, clock, files, remote, ledger, run, idx, sample,
                   derived, current_json, annual_pm25_json, annual_temp_json,
                   history, content, contents, calls, attempts, wrote>>

\* One reduction and its conversion: sample = safe_reduce_mean(...), then the
\* derived value conv(sample).  An exception leaving safe_reduce_mean ends
\* the run.
Reduce(r, q, conv, next) ==
    LET s == safe_reduce_mean(ee[q])
    IN  IF s.exc
        THEN Raised(r) /\ UNCHANGED <<pc, sample, derived>>
        ELSE /\ sample' = [sample EXCEPT ![r][q] = s]
             /\ derived' = [derived EXCEPT ![r][q] = conv]
             /\ pc' = [pc EXCEPT ![r] = next]
             /\ UNCHANGED status

\* now_iso(): reads the clock, which moves on
now_iso == clock

CurrentPM25(r) ==
    /\ At(r, "pm25_now")
    /\ Reduce(r, "pm25_now", pm25_now_ug(safe_reduce_mean(ee["pm25_now"])), "temp_now")
    /\ UNCHANGED <<env, ee, clock, files, remote, ledger, run, idx,
                   current_json, annual_pm25_json, annual_temp_json,
                   history, content, contents, calls, attempts, wrote>>

CurrentTemp(r) ==
    /\ At(r, "temp_now")
    /\ Reduce(r, "temp_now", temp_now_c(safe_reduce_mean(ee["temp_now"])), "annual_pm25")
    /\ current_json' =
         [current_json EXCEPT ![r] =
            IF status'[r] = "raised" THEN @
            ELSE [timestamp_utc |-> now_iso,
                  pm25_ugm3 |-> derived[r]["pm25_now"],
                  temperature_c |-> derived'[r]["temp_now"]]]
    /\ clock' = IF status'[r] = "raised" THEN clock ELSE clock + 1
    /\ UNCHANGED <<env, ee, files, remote, ledger, run, idx,
                   annual_pm25_json, annual_temp_json,
                   history, content, contents, calls, attempts, wrote>>

AnnualPM25(r) ==
    /\ At(r, "annual_pm25")
    /\ Reduce(r, "annual_pm25", annual_pm25_ug(safe_reduce_mean(ee["annual_pm25"])), "annual_temp")
    /\ annual_pm25_json' =
         [annual_pm25_json EXCEPT ![r] =
            IF status'[r] = "raised" THEN @
            ELSE [pm25_ugm3 |-> derived'[r]["annual_pm25"],
                  dataset |-> "CAMS NRT (annual mean over last 365 days)",
                  generated_utc |-> now_iso]]
    /\ clock' = IF status'[r] = "raised" THEN clock ELSE clock + 1
    /\ UNCHANGED <<env, ee, files, remote, ledger, run, idx,
                   current_json, annual_temp_json,
                   history, content, contents, calls, attempts, wrote>>

AnnualTemp(r) ==
    /\ At(r, "annual_temp")
    /\ Reduce(r, "annual_temp", annual_temp_c(safe_reduce_mean(ee["annual_temp"])), "append")
    /\ annual_temp_json' =
         [annual_temp_json EXCEPT ![r] =
            IF status'[r] = "raised" THEN @
            ELSE [temperature_c |-> derived'[r]["annual_temp"],
                  dataset |-> "ERA5-Land (annual mean over last 365 days)",
                  generated_utc |-> now_iso]]
    /\ clock' = IF status'[r] = "raised" THEN clock ELSE clock + 1
    /\ UNCHANGED <<env, ee, files, remote, ledger, run, idx,
                   current_json, annual_pm25_json,
                   history, content, contents, calls, attempts, wrote>>

\* append_history, first half: read the file, append, truncate (in memory)
AppendRead(r) ==
    /\ At(r, "append")
    /\ LET h == append_history(files[HISTORY_LOCAL], current_json[r], HISTORY_MAX)
       IN  IF h.exc
           THEN Raised(r) /\ UNCHANGED <<pc, history, ledger>>
           ELSE /\ history' = [history EXCEPT ![r] = h.val]
                /\ ledger' = Append(ledger, Triple(current_json[r]))
                /\ pc' = [pc EXCEPT ![r] = "dump"]
                /\ UNCHANGED status
    /\ UNCHANGED <<env, ee, clock, files, remote, run, idx, sample, derived,
                   current_json, annual_pm25_json, annual_temp_json,
                   content, contents, calls, attempts, wrote>>

\* append_history opening the file with "a": what is dumped follows the old
\* text, which is no longer valid JSON when the file held anything
AppendWrite_appends(r) ==
    /\ At(r, "dump")
    /\ files' = [files EXCEPT ![HISTORY_LOCAL] =
                    IF @.kind = "missing" THEN dump_history(history[r]) ELSE Corrupt]
    /\ wrote' = [wrote EXCEPT ![r] = Append(@, HISTORY_LOCAL)]
    /\ idx' = [idx EXCEPT ![r] = 1]
    /\ pc' = [pc EXCEPT ![r] = "local"]
    /\ UNCHANGED <<env, ee, clock, remote, ledger, status, run, sample, derived,
                   current_json, annual_pm25_json, annual_temp_json, history,
                   content, contents, calls, attempts>>

\* append_history, second half: overwrite the file and return
AppendWrite(r) ==
    /\ At(r, "dump")
    /\ files' = [files EXCEPT ![HISTORY_LOCAL] = dump_history(history[r])]
    /\ wrote' = [wrote EXCEPT ![r] = Append(@, HISTORY_LOCAL)]
    /\ idx' = [idx EXCEPT ![r] = 1]
    /\ pc' = [pc EXCEPT ![r] = "local"]
    /\ UNCHANGED <<env, ee, clock, remote, ledger, status, run, sample, derived,
                   current_json, annual_pm25_json, annual_temp_json, history,
                   content, contents, calls, attempts>>

\* The object each of the four write_local calls is given
LocalObject(r, i) ==
    CASE i = 1 -> JsonObj(current_json[r])
      [] i = 2 -> JsonObj(annual_pm25_json[r])
      [] i = 3 -> JsonObj(annual_temp_json[r])
      [] i = 4 -> JsonArr(history[r])

\* The four write_local calls, one file each
WriteLocal(r) ==
    /\ At(r, "local")
    /\ files' = [files EXCEPT ![Uploads[idx[r]][2]] = write_local(LocalObject(r, idx[r]))]
    /\ wrote' = [wrote EXCEPT ![r] = Append(@, Uploads[idx[r]][2])]
    /\ IF idx[r] < 4
       THEN idx' = [idx EXCEPT ![r] = @ + 1] /\ UNCHANGED pc
       ELSE idx' = [idx EXCEPT ![r] = 1] /\ pc' = [pc EXCEPT ![r] = "token"]
    /\ UNCHANGED <<env, ee, clock, remote, ledger, status, run, sample, derived,
                   current_json, annual_pm25_json, annual_temp_json, history,
                   content, contents, calls, attempts>>

\* A missing token that is only reported: the run goes on to the repository
CheckToken_continues(r) ==
    /\ At(r, "token")
    /\ pc' = [pc EXCEPT ![r] = "get_repo"]
    /\ UNCHANGED <<env, ee, clock, files, remote, ledger, status, run, idx, sample,
                   derived, current_json, annual_pm25_json, annual_temp_json,
                   history, content, contents, calls, attempts, wrote>>

\* TOKEN = os.getenv("GITHUB_TOKEN"); RuntimeError when it is not set
CheckToken(r) ==
    /\ At(r, "token")
    /\ IF env.token
       THEN pc' = [pc EXCEPT ![r] = "get_repo"] /\ UNCHANGED status
       ELSE Raised(r) /\ UNCHANGED pc
    /\ UNCHANGED <<env, ee, clock, files, remote, ledger, run, idx, sample,
                   derived, current_json, annual_pm25_json, annual_temp_json,
                   history, content, contents, calls, attempts, wrote>>

\* repo = g.get_repo(REPO_NAME): a repository call outside any try
GetRepo(r) ==
    /\ At(r, "get_repo")
    /\ \E ok \in BOOLEAN :
         IF ok
         THEN pc' = [pc EXCEPT ![r] = "open"] /\ UNCHANGED status
         ELSE Raised(r) /\ UNCHANGED pc
    /\ UNCHANGED <<env, ee, clock, files, remote, ledger, run, idx, sample,
                   derived, current_json, annual_pm25_json, annual_temp_json,
                   history, content, contents, calls, attempts, wrote>>

PathAt(r) == Uploads[idx[r]][1]
Call(op, path, msg, sha, ok) ==
    [op |-> op, path |-> path, msg |-> msg, sha |-> sha, ok |-> ok]

\* After one upload_json returns (its locals are gone): the next call, or the
\* success marker
AfterUpload(r) ==
    /\ content' = [content EXCEPT ![r] = Missing]
    /\ contents' = [contents EXCEPT ![r] = 0]
    /\ calls' = [calls EXCEPT ![r] = <<>>]
    /\ IF idx[r] < 4
       THEN /\ idx' = [idx EXCEPT ![r] = @ + 1]
            /\ pc' = [pc EXCEPT ![r] = "open"]
            /\ UNCHANGED status
       ELSE /\ pc' = [pc EXCEPT ![r] = "done"]
            /\ status' = [status EXCEPT ![r] = "done"]
            /\ UNCHANGED idx

\* upload_json: read the local file (outside the try)
UploadOpen(r) ==
    /\ At(r, "open")
    /\ attempts' = [attempts EXCEPT ![r] = Append(@, PathAt(r))]
    /\ IF files[Uploads[idx[r]][2]].kind = "missing"
       THEN Raised(r) /\ UNCHANGED <<pc, content>>
       ELSE /\ content' = [content EXCEPT ![r] = files[Uploads[idx[r]][2]]]
            /\ pc' = [pc EXCEPT ![r] = "get_contents"]
            /\ UNCHANGED status
    /\ UNCHANGED <<env, ee, clock, files, remote, ledger, run, idx, sample,
                   derived, current_json, annual_pm25_json, annual_temp_json,
                   history, contents, calls, wrote>>

\* upload_json: contents = repo.get_contents(path_in_repo)
UploadFetch(r) ==
    /\ At(r, "get_contents")
    /\ \E net \in BOOLEAN :
         IF net /\ remote[PathAt(r)].exists
         THEN /\ contents' = [contents EXCEPT ![r] = remote[PathAt(r)].sha]
              /\ calls' = [calls EXCEPT ![r] =
                             Append(@, Call("get_contents", PathAt(r), <<>>, 0, TRUE))]
              /\ pc' = [pc EXCEPT ![r] = "update_file"]
         ELSE /\ calls' = [calls EXCEPT ![r] =
                             Append(@, Call("get_contents", PathAt(r), <<>>, 0, FALSE))]
              /\ pc' = [pc EXCEPT ![r] = "create_file"]
              /\ UNCHANGED contents
    /\ UNCHANGED <<env, ee, clock, files, remote, ledger, status, run, idx, sample,
                   derived, current_json, annual_pm25_json, annual_temp_json,
                   history, content, attempts, wrote>>

\* The commit messages upload_json builds
UpdateMessage(p) == <<"Auto-update", basename(p)>>
CreateMessage(p) == <<"Create", basename(p)>>

\* upload_json: repo.update_file(contents.path, message, content, contents.sha);
\* any exception in the try block leads to the except branch
UploadUpdate(r) ==
    /\ At(r, "update_file")
    /\ \E net \in BOOLEAN :
         LET p == PathAt(r)
             ok == net /\ remote[p].exists /\ remote[p].sha = contents[r]
             c == Call("update_file", p, UpdateMessage(p), contents[r], ok)
         IN  IF ok
             THEN /\ remote' = [remote EXCEPT ![p] =
                                  [exists |-> TRUE, sha |-> @.sha + 1,
                                   content |-> content[r], msg |-> c.msg]]
                  /\ AfterUpload(r)
             ELSE /\ calls' = [calls EXCEPT ![r] = Append(@, c)]
                  /\ pc' = [pc EXCEPT ![r] = "create_file"]
                  /\ UNCHANGED <<remote, status, idx, content, contents>>
    /\ UNCHANGED <<env, ee, clock, files, ledger, run, sample,
                   derived, current_json, annual_pm25_json, annual_temp_json,
                   history, attempts, wrote>>

\* upload_json without the inner try: a failed create_file ends the run
UploadCreate_unguarded(r) ==
    /\ At(r, "create_file")
    /\ \E net \in BOOLEAN :
         LET p == PathAt(r)
             ok == net /\ ~remote[p].exists
         IN  IF ok
             THEN /\ remote' = [remote EXCEPT ![p] =
                                  [exists |-> TRUE, sha |-> @.sha + 1,
                                   content |-> content[r], msg |-> CreateMessage(p)]]
                  /\ AfterUpload(r)
             ELSE /\ Raised(r)
                  /\ UNCHANGED <<remote, pc, idx, content, contents, calls>>
    /\ UNCHANGED <<env, ee, clock, files, ledger, run, sample,
                   derived, current_json, annual_pm25_json, annual_temp_json,
                   history, attempts, wrote>>

\* upload_json: repo.create_file(path_in_repo, message, content) in the except
\* branch; its own failure is printed and swallowed
UploadCreate(r) ==
    /\ At(r, "create_file")
    /\ \E net \in BOOLEAN :
         LET p == PathAt(r)
             ok == net /\ ~remote[p].exists
         IN  /\ IF ok
                THEN remote' = [remote EXCEPT ![p] =
                                  [exists |-> TRUE, sha |-> @.sha + 1,
                                   content |-> content[r], msg |-> CreateMessage(p)]]
                ELSE UNCHANGED remote
             /\ AfterUpload(r)
    /\ UNCHANGED <<env, ee, clock, files, ledger, run, sample,
                   derived, current_json, annual_pm25_json, annual_temp_json,
                   history, attempts, wrote>>

\* One step of the run of process r
RunStep(r) ==
    \/ Authenticate(r)
    \/ InitializeEE(r)
    \/ CurrentPM25(r)
    \/ CurrentTemp(r)
    \/ AnnualPM25(r)
    \/ AnnualTemp(r)
    \/ AppendRead(r)
    \/ AppendWrite(r)
    \/ WriteLocal(r)
    \/ CheckToken(r)
    \/ GetRepo(r)
    \/ UploadOpen(r)
    \/ UploadFetch(r)
    \/ UploadUpdate(r)
    \/ UploadCreate(r)

Next == RunStep(1)

Spec == Init /\ [][Next]_vars

\* ------------------------------------------------- consecutive runs
\* The next scheduled run of process r: a new process, the same directory
Restart(r) ==
    /\ status[r] \in {"done", "raised"}
    /\ run[r] < MaxRuns
    /\ run' = [run EXCEPT ![r] = @ + 1]
    /\ status' = [status EXCEPT ![r] = "running"]
    /\ pc' = [pc EXCEPT ![r] = "auth"]
    /\ idx' = [idx EXCEPT ![r] = 1]
    /\ sample' = [sample EXCEPT ![r] = [q \in Queries |-> NoSample]]
    /\ derived' = [derived EXCEPT ![r] = [q \in Queries |-> None]]
    /\ current_json' = [current_json EXCEPT ![r] = NoDoc]
    /\ annual_pm25_json' = [annual_pm25_json EXCEPT ![r] = NoDoc]
    /\ annual_temp_json' = [annual_temp_json EXCEPT ![r] = NoDoc]
    /\ history' = [history EXCEPT ![r] = <<>>]
    /\ content' = [content EXCEPT ![r] = Missing]
    /\ contents' = [contents EXCEPT ![r] = 0]
    /\ calls' = [calls EXCEPT ![r] = <<>>]
    /\ attempts' = [attempts EXCEPT ![r] = <<>>]
    /\ wrote' = [wrote EXCEPT ![r] = <<>>]
    /\ UNCHANGED <<env, ee, clock, files, remote, ledger>>

\* The service has data for everything but, possibly, the current PM2.5.
SeqServiceStates ==
    {f \in ServiceStates :
        /\ f["pm25_now"] \in {Empty, Value(PM25_BAND, 2)}
        /\ f["temp_now"] = Value(TEMP_BAND, 30000)
        /\ f["annual_pm25"] = Value(PM25_BAND, 2)
        /\ f["annual_temp"] = Value(TEMP_BAND, 30000)}

\* One process whose runs follow one another; credentials in order, the
\* token present or not.
InitSeq ==
    /\ env \in {e \in Environments : e.secret /\ e.keyfile /\ e.credOk /\ e.initOk}
    /\ ee \in SeqServiceStates
    /\ clock = 1
    /\ \E h \in {Missing, JsonArr(OldLog(1)), JsonArr(OldLog(HISTORY_MAX))} :
         /\ files = [n \in LocalNames |-> IF n = HISTORY_LOCAL THEN h ELSE Missing]
         /\ ledger = read_local_history(h).val
    /\ \E e \in BOOLEAN : remote = [p \in Paths |-> RemoteDoc(e)]
    /\ status = [r \in Procs |-> IF r = 1 THEN "running" ELSE "off"]
    /\ pc = [r \in Procs |-> "auth"]
    /\ run = [r \in Procs |-> 1]
    /\ Fresh

NextSeq == RunStep(1) \/ Restart(1)

SpecSeq == InitSeq /\ [][NextSeq]_vars

\* ------------------------------------------------- two overlapping runs
\* Two processes in the same directory, against the same repository, with
\* credentials and token in order.  The first run has built its three
\* documents (at clock 1, 2 and 3) and is about to call append_history when
\* the second run starts.
ConcService == [q \in Queries |-> Value(BandOf(q), IF BandOf(q) = PM25_BAND THEN 2 ELSE 30000)]
ConcDerived ==
    [q \in Queries |-> IF BandOf(q) = PM25_BAND THEN Some(2000000000) ELSE Some(2685)]

InitConc ==
    /\ env = [secret |-> TRUE, keyfile |-> TRUE, credOk |-> TRUE, initOk |-> TRUE,
              token |-> TRUE]
    /\ ee = ConcService
    /\ clock = 4
    /\ files = [n \in LocalNames |->
                  IF n = HISTORY_LOCAL THEN JsonArr(OldLog(1)) ELSE Missing]
    /\ ledger = OldLog(1)
    /\ remote = [p \in Paths |-> RemoteDoc(TRUE)]
    /\ status = [r \in Procs |-> "running"]
    /\ pc = [r \in Procs |-> IF r = 1 THEN "append" ELSE "auth"]
    /\ run = [r \in Procs |-> 1]
    /\ idx = [r \in Procs |-> 1]
    /\ sample = [r \in Procs |->
                   IF r = 1 THEN [q \in Queries |-> safe_reduce_mean(ConcService[q])]
                   ELSE [q \in Queries |-> NoSample]]
    /\ derived = [r \in Procs |->
                    IF r = 1 THEN ConcDerived ELSE [q \in Queries |-> None]]
    /\ current_json = [r \in Procs |->
                         IF r = 1
                         THEN [timestamp_utc |-> 1,
                               pm25_ugm3 |-> ConcDerived["pm25_now"],
                               temperature_c |-> ConcDerived["temp_now"]]
                         ELSE NoDoc]
    /\ annual_pm25_json = [r \in Procs |->
                             IF r = 1
                             THEN [pm25_ugm3 |-> ConcDerived["annual_pm25"],
                                   dataset |-> "CAMS NRT (annual mean over last 365 days)",
                                   generated_utc |-> 2]
                             ELSE NoDoc]
    /\ annual_temp_json = [r \in Procs |->
                             IF r = 1
                             THEN [temperature_c |-> ConcDerived["annual_temp"],
                                   dataset |-> "ERA5-Land (annual mean over last 365 days)",
                                   generated_utc |-> 3]
                             ELSE NoDoc]
    /\ history = [r \in Procs |-> <<>>]
    /\ content = [r \in Procs |-> Missing]
    /\ contents = [r \in Procs |-> 0]
    /\ calls = [r \in Procs |-> <<>>]
    /\ attempts = [r \in Procs |-> <<>>]
    /\ wrote = [r \in Procs |-> <<>>]

NextConc == \E r \in Procs : RunStep(r)

SpecConc == InitConc /\ [][NextConc]_vars

\* ------------------------------------------------- the history ledger alone
\* The readings handed to append_history: any of four for the first calls,
\* then a fixed cycle of present and absent values.
Readings(t) ==
    IF Len(ledger) < FreeAppends
    THEN {[timestamp_utc |-> t, pm25_ugm3 |-> p, temperature_c |-> c] :
            p \in {None, Some(2000000000)}, c \in {None, Some(2685)}}
    ELSE {[timestamp_utc |-> t,
           pm25_ugm3 |-> IF t % 3 = 0 THEN None ELSE Some((t % 3) * 1000000000),
           temperature_c |-> IF t % 2 = 0 THEN None ELSE Some(2685)]}

InitHist ==
    /\ env = [secret |-> TRUE, keyfile |-> TRUE, credOk |-> TRUE, initOk |-> TRUE,
              token |-> TRUE]
    /\ ee = [q \in Queries |-> Empty]
    /\ clock = 1
    /\ \E h \in {Missing, Corrupt, JsonArr(<<>>)} :
         files = [n \in LocalNames |-> IF n = HISTORY_LOCAL THEN h ELSE Missing]
    /\ ledger = <<>>
    /\ remote = [p \in Paths |-> RemoteDoc(FALSE)]
    /\ status = [r \in Procs |-> "off"]
    /\ pc = [r \in Procs |-> "append"]
    /\ run = [r \in Procs |-> 1]
    /\ Fresh

\* One whole call history = append_history(HISTORY_LOCAL, current_json,
\* maxlen=HISTORY_MAX) by a caller that does nothing else
AppendHistoryCall ==
    /\ status[1] = "off"
    /\ Len(ledger) < MaxAppends
    /\ \E obj \in Readings(clock) :
         LET h == append_history(files[HISTORY_LOCAL], obj, HISTORY_MAX)
         IN  /\ current_json' = [current_json EXCEPT ![1] = obj]
             /\ ledger' = Append(ledger, Triple(obj))
             /\ IF h.exc
                THEN Raised(1) /\ UNCHANGED <<files, history, wrote>>
                ELSE /\ files' = [files EXCEPT ![HISTORY_LOCAL] = dump_history(h.val)]
                     /\ history' = [history EXCEPT ![1] = h.val]
                     /\ wrote' = [wrote EXCEPT ![1] = <<HISTORY_LOCAL>>]
                     /\ UNCHANGED status
    /\ clock' = clock + 1
    /\ UNCHANGED <<env, ee, remote, pc, run, idx, sample, derived,
                   annual_pm25_json, annual_temp_json, content, contents, calls,
                   attempts>>

NextHist == AppendHistoryCall

SpecHist == InitHist /\ [][NextHist]_vars

\* ------------------------------------------------------------ properties
\* Position of a statement in the script
Rank(l) ==
    CASE l = "auth" -> 1 [] l = "init" -> 2 [] l = "pm25_now" -> 3
      [] l = "temp_now" -> 4 [] l = "annual_pm25" -> 5 [] l = "annual_temp" -> 6
      [] l = "append" -> 7 [] l = "dump" -> 8 [] l = "local" -> 9
      [] l = "token" -> 10 [] l = "get_repo" -> 11
      [] l \in {"open", "get_contents", "update_file", "create_file"} -> 12
      [] l = "done" -> 13
\* Process r has executed the statement labelled l
Past(r, l) == status[r] # "off" /\ Rank(pc[r]) > Rank(l)
Started == {r \in Procs : status[r] # "off"}

\* A reduction that yielded no data: None, {} or a null band value
NoData(s) == s.isNone \/ s.map = <<>> \/ s.map[1][2] = None

IsPrefix(s, t) == Len(s) <= Len(t) /\ \A i \in 1..Len(s) : s[i] = t[i]

\* C2: with the history file missing, unreadable or not valid JSON,
\* read_local_history returns the empty list and raises nothing, and the
\* append_history that follows returns (and then persists) the one-element
\* log holding the current reading's triple.
C2_LoadRecovers ==
    \A r \in Started :
        /\ status[r] = "raised" => pc[r] # "append"
        /\ (pc[r] = "dump" /\ files[HISTORY_LOCAL].kind # "json")
              => /\ read_local_history(files[HISTORY_LOCAL]).val = <<>>
                 /\ history[r] = <<Triple(current_json[r])>>
        /\ (Past(r, "dump") /\ ledger = <<Triple(current_json[r])>>)
              => files[HISTORY_LOCAL] = JsonArr(<<Triple(current_json[r])>>)

C2_Witness ==
    /\ pc[1] = "dump"
    /\ files[HISTORY_LOCAL] = Corrupt
    /\ history[1] = <<Triple(current_json[1])>>
    /\ current_json[1].pm25_ugm3 # None

\* C3: a reduction that yields no data (None, an empty mapping or a null band
\* value) leaves the corresponding field of its output document present and
\* null, never 0, in the built document and in the written file, and the
\* history triple carries the same null.
C3_NoDataIsNull ==
    \A r \in Started :
        /\ Past(r, "temp_now") =>
             /\ {"timestamp_utc", "pm25_ugm3", "temperature_c"} = DOMAIN current_json[r]
             /\ NoData(sample[r]["pm25_now"]) => current_json[r].pm25_ugm3 = None
             /\ NoData(sample[r]["temp_now"]) => current_json[r].temperature_c = None
        /\ Past(r, "annual_pm25") =>
             /\ "pm25_ugm3" \in DOMAIN annual_pm25_json[r]
             /\ NoData(sample[r]["annual_pm25"]) => annual_pm25_json[r].pm25_ugm3 = None
        /\ Past(r, "annual_temp") =>
             /\ "temperature_c" \in DOMAIN annual_temp_json[r]
             /\ NoData(sample[r]["annual_temp"]) => annual_temp_json[r].temperature_c = None
        /\ Past(r, "append") =>
             LET t == history[r][Len(history[r])]
             IN  /\ NoData(sample[r]["pm25_now"]) => t.pm25 = None
                 /\ NoData(sample[r]["temp_now"]) => t.temp = None
        /\ Past(r, "local") =>
             /\ NoData(sample[r]["pm25_now"]) => files["current.json"].obj.pm25_ugm3 = None
             /\ NoData(sample[r]["temp_now"]) => files["current.json"].obj.temperature_c = None
             /\ NoData(sample[r]["annual_pm25"])
                   => files["annual_pm25.json"].obj.pm25_ugm3 = None
             /\ NoData(sample[r]["annual_temp"])
                   => files["annual_temperature.json"].obj.temperature_c = None

C3_Witness ==
    /\ Past(1, "local")
    /\ ~sample[1]["pm25_now"].isNone
    /\ sample[1]["pm25_now"].map = <<>>
    /\ files["current.json"].obj.pm25_ugm3 = None
    /\ files["current.json"].obj.temperature_c # None
    /\ history[1][Len(history[1])].pm25 = None

\* The reductions process r has performed
Reduced(r) ==
    {q \in Queries :
        Past(r, CASE q = "pm25_now" -> "pm25_now" [] q = "temp_now" -> "temp_now"
                  [] q = "annual_pm25" -> "annual_pm25" [] q = "annual_temp" -> "annual_temp")}

\* C4 as stated: safe_reduce_mean never raises and returns either a non-empty
\* mapping or the absent marker, never an empty mapping.
C4_Original ==
    \A r \in Started :
        /\ status[r] = "raised" => pc[r] \notin Queries
        /\ \A q \in Reduced(r) : sample[r][q].isNone \/ Len(sample[r][q].map) > 0

\* C4 amended: safe_reduce_mean never raises; its result is the absent marker
\* exactly when the remote call raised, and otherwise the mapping the service
\* returned, unchanged: possibly empty, possibly with a null band value, and
\* never with a zero in place of missing data.
C4_Amended ==
    \A r \in Started :
        /\ status[r] = "raised" => pc[r] \notin Queries
        /\ \A q \in Reduced(r) :
             /\ sample[r][q].isNone <=> ee[q].raises
             /\ ~sample[r][q].isNone => sample[r][q].map = ee[q].info
             /\ \A i \in 1..Len(sample[r][q].map) :
                  sample[r][q].map[i][2] = Some(0) => ee[q].info[i][2] = Some(0)

C4_Witness ==
    \E q \in Reduced(1) : ee[q].raises /\ sample[1][q].isNone /\ status[1] = "done"

\* C5 as stated: within one upload_json, an update carries the fetched
\* revision token and the message "Auto-update <filename>", and a create is
\* attempted if and only if the fetch raised: never for a document whose
\* fetch succeeded.
C5_Claim ==
    \A r \in Started :
        /\ pc[r] = "update_file" =>
             /\ calls[r] = <<Call("get_contents", PathAt(r), <<>>, 0, TRUE)>>
             /\ remote[PathAt(r)].exists
             /\ UpdateMessage(PathAt(r)) = <<"Auto-update", Uploads[idx[r]][2]>>
        /\ (status[r] = "running" /\ pc[r] = "create_file") =>
             /\ ~calls[r][1].ok
             /\ CreateMessage(PathAt(r)) = <<"Create", Uploads[idx[r]][2]>>
        /\ (calls[r] # <<>> /\ ~calls[r][1].ok) => pc[r] = "create_file"

\* C6: once the first upload_json is called, each of the four documents is
\* attempted, in the fixed order, whatever happened to the ones before: the
\* attempts are always a prefix of the order, the run cannot raise or stop
\* between them, and it ends only with all four attempted.
C6_AllAttempted ==
    \A r \in Started :
        /\ IsPrefix(attempts[r], UploadOrder)
        /\ attempts[r] # <<>> =>
             /\ status[r] \in {"running", "done"}
             /\ status[r] = "running" => ENABLED RunStep(r)
        /\ status[r] = "done" => attempts[r] = UploadOrder

\* The run has ended; the first and the last document were not uploaded
\* (update and create both failed), the second was updated.
C6_Witness ==
    /\ status[1] = "done"
    /\ attempts[1] = UploadOrder
    /\ remote[OUT_CURRENT].msg = <<"earlier", "commit">>
    /\ remote[OUT_ANNUAL_PM25].msg = UpdateMessage(OUT_ANNUAL_PM25)
    /\ remote[OUT_HISTORY].msg = <<"earlier", "commit">>

CredentialsOk == env.secret /\ env.keyfile /\ env.credOk /\ env.initOk

\* C7 as stated: with the secret and the token present and the session
\* initialised, the run ends by printing the success marker, whatever fails
\* among the reductions, the history read and the repository calls; it ends
\* with a raised error only on missing credentials or failed initialisation.
C7_Claim ==
    \A r \in Started :
        /\ status[r] = "raised" => pc[r] \in {"auth", "init", "token"}
        /\ (CredentialsOk /\ env.token) =>
              /\ status[r] # "raised"
              /\ status[r] = "running" => ENABLED RunStep(r)

\* C8: when the secret is absent, the key file is missing, the credential is
\* rejected or session initialisation fails, the run ends raised at that
\* statement, takes no further step (no retry), and has produced nothing: no
\* local file written, nothing appended to the history, no repository call.
C8_AbortsClean ==
    ~CredentialsOk =>
        \A r \in Started :
            /\ pc[r] \in {"auth", "init"}
            /\ status[r] # "done"
            /\ status[r] = "raised" => ~ENABLED RunStep(r)
            /\ status[r] = "running" => ENABLED RunStep(r)
            /\ wrote[r] = <<>> /\ history[r] = <<>>
            /\ attempts[r] = <<>> /\ calls[r] = <<>>
            /\ \A n \in LocalNames \ {HISTORY_LOCAL} : files[n] = Missing
            /\ files[HISTORY_LOCAL] \in HistoryFiles
            /\ ledger = read_local_history(files[HISTORY_LOCAL]).val
            /\ \E e \in BOOLEAN : remote = [p \in Paths |-> RemoteDoc(e)]

C8_Witness ==
    /\ env.secret /\ env.keyfile /\ env.credOk /\ ~env.initOk
    /\ status[1] = "raised" /\ pc[1] = "init"
    /\ files[HISTORY_LOCAL] = JsonArr(OldLog(1))

Elems(s) == {s[i] : i \in 1..Len(s)}
Min(a, b) == IF a < b THEN a ELSE b

\* C1: after n calls of append_history from a missing or empty history file,
\* the persisted and returned log is exactly the last min(n, 200) appended
\* triples in insertion order: it never exceeds 200 entries, and an append to
\* a full log drops the oldest entry and puts the new one last.
C1_FifoBounded ==
    LET n == Len(ledger)
        log == files[HISTORY_LOCAL].arr
    IN  n > 0 =>
          /\ status[1] # "raised"
          /\ files[HISTORY_LOCAL].kind = "json" /\ files[HISTORY_LOCAL].isArr
          /\ history[1] = log
          /\ Len(log) = Min(n, HISTORY_MAX)
          /\ Len(log) <= HISTORY_MAX
          /\ \A i \in 1..Len(log) : log[i] = ledger[n - Len(log) + i]

\* The 201st append: the log holds entries 2..201.
C1_Witness ==
    /\ Len(ledger) = HISTORY_MAX + 1
    /\ Len(files[HISTORY_LOCAL].arr) = HISTORY_MAX
    /\ files[HISTORY_LOCAL].arr[1] = ledger[2]
    /\ files[HISTORY_LOCAL].arr[1].ts = 2
    /\ files[HISTORY_LOCAL].arr[HISTORY_MAX] = Triple(current_json[1])
    /\ files[HISTORY_LOCAL].arr[HISTORY_MAX].ts = HISTORY_MAX + 1

\* Processes whose append_history has written the file
Wrote == {r \in Started : Past(r, "dump")}

\* C9: nothing coordinates the read-modify-write of the history between two
\* runs.  The history file always holds the whole list of one writer, never a
\* merge, and so does the remote document once a run has uploaded it; when
\* each run read the file before the other wrote it, the local history lacks
\* the entry of one of them and so does the remote document.
C9_LastWriterWins ==
    /\ \A r \in Started :
         Rank(pc[r]) > Rank("append") => Triple(current_json[r]) \in Elems(history[r])
    /\ Wrote # {} => \E w \in Wrote : files[HISTORY_LOCAL] = JsonArr(history[w])
    /\ remote[OUT_HISTORY].msg # <<"earlier", "commit">> =>
         \E w \in Wrote : remote[OUT_HISTORY].content = JsonArr(history[w])
    /\ (/\ Wrote = Procs
        /\ Triple(current_json[1]) \notin Elems(history[2])
        /\ Triple(current_json[2]) \notin Elems(history[1]))
         => /\ \E r \in Procs :
                  Triple(current_json[r]) \notin Elems(files[HISTORY_LOCAL].arr)
            /\ \E r \in Procs :
                  Triple(current_json[r]) \notin Elems(remote[OUT_HISTORY].content.arr)

\* Both runs ended with the success marker; the entry of run 1 is in neither
\* the local history nor the uploaded one, which hold that of run 2.
C9_Witness ==
    /\ \A r \in Procs : status[r] = "done"
    /\ remote[OUT_HISTORY].msg = UpdateMessage(OUT_HISTORY)
    /\ Triple(current_json[1]) \notin Elems(files[HISTORY_LOCAL].arr)
    /\ Triple(current_json[1]) \notin Elems(remote[OUT_HISTORY].content.arr)
    /\ Triple(current_json[2]) \in Elems(files[HISTORY_LOCAL].arr)
    /\ Triple(current_json[2]) \in Elems(remote[OUT_HISTORY].content.arr)
    /\ Triple(current_json[1]) \in Elems(ledger)

\* The entries appended since the start: their timestamps are clock values
NewEntries == {i \in 1..Len(ledger) : ledger[i].ts >= 1}

\* C10: the token is checked only after the history append and the four
\* local writes.  In a run without the token nothing is fetched, updated or
\* created in the repository and the run raises at the check, but by then
\* the five local writes are done, the local history ends with this run's
\* entry, and after k such runs it holds k new entries (at most 200 in all).
C10_TokenCheckedLast ==
    \A r \in Started :
        /\ ~env.token =>
             /\ attempts[r] = <<>> /\ calls[r] = <<>>
             /\ status[r] # "done"
             /\ Rank(pc[r]) <= Rank("token")
             /\ \E e \in BOOLEAN : remote = [p \in Paths |-> RemoteDoc(e)]
        /\ (status[r] = "raised" /\ pc[r] = "token") =>
             LET log == files[HISTORY_LOCAL].arr
                 n == Len(ledger)
             IN  /\ ~env.token
                 /\ wrote[r] = <<HISTORY_LOCAL, "current.json", "annual_pm25.json",
                                 "annual_temperature.json", HISTORY_LOCAL>>
                 /\ files["current.json"] = JsonObj(current_json[r])
                 /\ files["annual_pm25.json"] = JsonObj(annual_pm25_json[r])
                 /\ files["annual_temperature.json"] = JsonObj(annual_temp_json[r])
                 /\ Cardinality(NewEntries) = run[r]
                 /\ files[HISTORY_LOCAL].kind = "json"
                 /\ Len(log) = Min(n, HISTORY_MAX)
                 /\ \A i \in 1..Len(log) : log[i] = ledger[n - Len(log) + i]
                 /\ log[Len(log)] = Triple(current_json[r])

\* The second run without a token has raised: two new entries follow the
\* one the file held.
C10_Witness ==
    /\ ~env.token
    /\ run[1] = 2 /\ status[1] = "raised" /\ pc[1] = "token"
    /\ Len(files[HISTORY_LOCAL].arr) = 3
    /\ files[HISTORY_LOCAL].arr[1].ts = 0
    /\ files[HISTORY_LOCAL].arr[3] = Triple(current_json[1])
=============================================================================
